---- MODULE Spec2Model ----
(***************************************************************************)
(* One TCPPeer (src/overlay/TCPPeer.cpp) as a state machine.               *)
(*                                                                         *)
(* All completion handlers of one peer run on its strand, one at a time,   *)
(* so every handler is one atomic action.  An asynchronous operation is a  *)
(* record whose field st is "pending" (issued, not finished), or "ok" /    *)
(* "err" (finished, its handler queued on the strand and not yet run).     *)
(* Closing the socket finishes every pending operation with an error; an   *)
(* operation issued on a closed socket finishes with an error at once; a   *)
(* handler that was already queued with success keeps its success.         *)
(*                                                                         *)
(* Handlers are operators from a record of the peer's fields to the record *)
(* after the call, so that a handler's calls (drop, startRead,             *)
(* messageSender...) compose as they do in the code.                       *)
(***************************************************************************)
EXTENDS Integers, Sequences, FiniteSets, TLC

\* ---- program constants
IO_TIMEOUT_SECONDS == 30
MAX_MESSAGE_SIZE == 16777216

\* ---- bounds of the model
\* inputs in one behaviour: sendMessage calls, frame headers sent by the remote
\* peer, startIdleTimer calls made by the owner of the peer, steps of the clock
MaxEvents == 5
\* seconds the clock advances in one step
TimeStep == 30

\* the header's most-significant (XDR continuation) bit
TopBits == {0, 1}
\* headers the remote peer sends: <<declared body length (31 bits), top bit>>
WireHeaders == {<<5, 0>>, <<MAX_MESSAGE_SIZE, 1>>, <<2147483647, 1>>}

VARIABLES
    left,           \* inputs still to come
    win32,          \* the destroyed peer was built with _WIN32 defined
    now,            \* mApp.getClock().now(), seconds
    mState,         \* Peer::mState
    sockOpen,       \* mSocket is open
    closeCalls,     \* calls of mSocket->close()
    dropPeerCalls,  \* calls of OverlayManager::dropPeer
    destroyed,      \* ~TCPPeer has run
    connectOp,      \* the async_connect of initiate()
    mWriteQueue,    \* frames queued by sendMessage
    writes,         \* outstanding async_write operations
    written,        \* frames handed to async_write, in order
    sent,           \* number of sendMessage calls
    reads,          \* outstanding async_read operations
    mIncomingHeader,
    mIncomingBody,
    rcvd,           \* frame headers received from the remote peer
    wireLen,        \* the length the remote peer declared in each of them
    sink,           \* bodies handed to Peer::recvMessage, in order
    mLastRead,
    mLastWrite,
    waits,          \* outstanding mIdleTimer.async_wait operations
    mTimeoutRead,
    mTimeoutWrite,
    mErrorRead,
    mErrorWrite,
    outcome,        \* what the last handler met: a fatal condition, "rearm" or "none"
    assertFailed,   \* the assert of startRead failed
    ub              \* pop() of an empty mWriteQueue

vars == <<left, win32, now, mState, sockOpen, closeCalls, dropPeerCalls, destroyed,
          connectOp, mWriteQueue, writes, written, sent, reads, mIncomingHeader,
          mIncomingBody, rcvd, wireLen, sink, mLastRead, mLastWrite, waits,
          mTimeoutRead, mTimeoutWrite, mErrorRead, mErrorWrite, outcome,
          assertFailed, ub>>

\* ---- helpers

RemoveAt(q, i) == [j \in 1..(Len(q) - 1) |-> IF j < i THEN q[j] ELSE q[j + 1]]

\* every pending operation of ops finishes with an error
Abort(ops) ==
    [j \in 1..Len(ops) |->
        IF ops[j].st = "pending" THEN [ops[j] EXCEPT !.st = "err"] ELSE ops[j]]

\* the state of an operation issued on the socket now
Issued(s) == IF s.sockOpen THEN "pending" ELSE "err"

\* the 4 header bytes, big-endian, of a frame of length L with top bit b
EncodeHeader(L, b) ==
    << (L \div 16777216) + 128 * b,
       (L \div 65536) % 256,
       (L \div 256) % 256,
       L % 256 >>

\* the peer's fields as a record; outcome starts anew in every handler
Cur ==
    [left |-> left, win32 |-> win32, now |-> now, mState |-> mState, sockOpen |-> sockOpen,
     closeCalls |-> closeCalls, dropPeerCalls |-> dropPeerCalls,
     destroyed |-> destroyed, connectOp |-> connectOp,
     mWriteQueue |-> mWriteQueue, writes |-> writes, written |-> written,
     sent |-> sent, reads |-> reads, mIncomingHeader |-> mIncomingHeader,
     mIncomingBody |-> mIncomingBody, rcvd |-> rcvd, wireLen |-> wireLen,
     sink |-> sink, mLastRead |-> mLastRead, mLastWrite |-> mLastWrite,
     waits |-> waits,
     mTimeoutRead |-> mTimeoutRead, mTimeoutWrite |-> mTimeoutWrite,
     mErrorRead |-> mErrorRead, mErrorWrite |-> mErrorWrite,
     outcome |-> "none", assertFailed |-> assertFailed, ub |-> ub]

\* the peer's fields hold t
Is(t) ==
    /\ left = t.left /\ win32 = t.win32 /\ now = t.now /\ mState = t.mState
    /\ sockOpen = t.sockOpen /\ closeCalls = t.closeCalls
    /\ dropPeerCalls = t.dropPeerCalls /\ destroyed = t.destroyed
    /\ connectOp = t.connectOp /\ mWriteQueue = t.mWriteQueue
    /\ writes = t.writes /\ written = t.written /\ sent = t.sent
    /\ reads = t.reads /\ mIncomingHeader = t.mIncomingHeader
    /\ mIncomingBody = t.mIncomingBody /\ rcvd = t.rcvd
    /\ wireLen = t.wireLen /\ sink = t.sink /\ mLastRead = t.mLastRead
    /\ mLastWrite = t.mLastWrite /\ waits = t.waits
    /\ mTimeoutRead = t.mTimeoutRead
    /\ mTimeoutWrite = t.mTimeoutWrite /\ mErrorRead = t.mErrorRead
    /\ mErrorWrite = t.mErrorWrite /\ outcome = t.outcome
    /\ assertFailed = t.assertFailed /\ ub = t.ub

\* the peer's fields hold t after the step
Becomes(t) ==
    /\ left' = t.left /\ win32' = t.win32 /\ now' = t.now /\ mState' = t.mState
    /\ sockOpen' = t.sockOpen /\ closeCalls' = t.closeCalls
    /\ dropPeerCalls' = t.dropPeerCalls /\ destroyed' = t.destroyed
    /\ connectOp' = t.connectOp /\ mWriteQueue' = t.mWriteQueue
    /\ writes' = t.writes /\ written' = t.written /\ sent' = t.sent
    /\ reads' = t.reads /\ mIncomingHeader' = t.mIncomingHeader
    /\ mIncomingBody' = t.mIncomingBody /\ rcvd' = t.rcvd
    /\ wireLen' = t.wireLen /\ sink' = t.sink /\ mLastRead' = t.mLastRead
    /\ mLastWrite' = t.mLastWrite /\ waits' = t.waits
    /\ mTimeoutRead' = t.mTimeoutRead
    /\ mTimeoutWrite' = t.mTimeoutWrite /\ mErrorRead' = t.mErrorRead
    /\ mErrorWrite' = t.mErrorWrite /\ outcome' = t.outcome
    /\ assertFailed' = t.assertFailed /\ ub' = t.ub

\* ---- Peer (base class; its code is in Peer.cpp)

\* Connecting -> Connected -> Closing: the state a new peer starts in
initialState(role) ==
    IF role = "WE_CALLED_REMOTE" THEN "CONNECTING" ELSE "CONNECTED"

isConnected(s) == s.mState = "CONNECTED"

shouldAbort(s) == s.mState = "CLOSING"

\* ---- the socket and the timer

\* mSocket->close()
socketClose(s) ==
    [s EXCEPT !.closeCalls = @ + 1,
              !.sockOpen = FALSE,
              !.reads = Abort(@),
              !.writes = Abort(@),
              !.connectOp = IF @ = "pending" THEN "err" ELSE @]

\* mIdleTimer.cancel()
timerCancel(s) == [s EXCEPT !.waits = Abort(@)]

\* ---- TCPPeer

\* drop without its guard: the teardown runs at every call
drop_Unguarded(s) ==
    socketClose([timerCancel([s EXCEPT !.mState = "CLOSING"])
                    EXCEPT !.dropPeerCalls = @ + 1])

\* drop that leaves mState as it is
drop_KeepsState(s) ==
    IF s.mState = "CLOSING"
    THEN s
    ELSE socketClose([timerCancel(s) EXCEPT !.dropPeerCalls = @ + 1])

drop(s) ==
    IF s.mState = "CLOSING"
    THEN s
    ELSE socketClose([timerCancel([s EXCEPT !.mState = "CLOSING"])
                         EXCEPT !.dropPeerCalls = @ + 1])

startIdleTimer(s) ==
    IF shouldAbort(s)
    THEN s
    ELSE [s EXCEPT !.waits = Append(Abort(@),
                                    [st |-> "pending",
                                     at |-> s.now + IO_TIMEOUT_SECONDS])]

\* idleTimerExpired marking the write meter for a read timeout
idleTimerExpired_WrongMeter(s, error) ==
    IF error
    THEN s
    ELSE IF s.now - s.mLastRead > IO_TIMEOUT_SECONDS
    THEN drop([s EXCEPT !.mTimeoutWrite = @ + 1, !.outcome = "readTimeout"])
    ELSE IF s.now - s.mLastWrite > IO_TIMEOUT_SECONDS
    THEN drop([s EXCEPT !.mTimeoutWrite = @ + 1, !.outcome = "writeTimeout"])
    ELSE startIdleTimer([s EXCEPT !.outcome = "rearm"])

idleTimerExpired(s, error) ==
    IF error
    THEN s
    ELSE IF s.now - s.mLastRead > IO_TIMEOUT_SECONDS
    THEN drop([s EXCEPT !.mTimeoutRead = @ + 1, !.outcome = "readTimeout"])
    ELSE IF s.now - s.mLastWrite > IO_TIMEOUT_SECONDS
    THEN drop([s EXCEPT !.mTimeoutWrite = @ + 1, !.outcome = "writeTimeout"])
    ELSE startIdleTimer([s EXCEPT !.outcome = "rearm"])

\* messageSender writing the newest frame instead of the oldest
messageSender_Back(s) ==
    IF s.mWriteQueue = <<>>
    THEN s
    ELSE [s EXCEPT !.mLastWrite = s.now,
                   !.writes = Append(@, [frame |-> s.mWriteQueue[Len(s.mWriteQueue)],
                                         st |-> Issued(s)]),
                   !.written = Append(@, s.mWriteQueue[Len(s.mWriteQueue)])]

\* messageSender taking the frame out of the queue when it starts the write
messageSender_PopFirst(s) ==
    IF s.mWriteQueue = <<>>
    THEN s
    ELSE [s EXCEPT !.mLastWrite = s.now,
                   !.writes = Append(@, [frame |-> Head(s.mWriteQueue),
                                         st |-> Issued(s)]),
                   !.written = Append(@, Head(s.mWriteQueue)),
                   !.mWriteQueue = Tail(@)]

messageSender(s) ==
    IF s.mWriteQueue = <<>>
    THEN s
    ELSE [s EXCEPT !.mLastWrite = s.now,
                   !.writes = Append(@, [frame |-> Head(s.mWriteQueue),
                                         st |-> Issued(s)]),
                   !.written = Append(@, Head(s.mWriteQueue))]

\* sendMessage starting the sender whether or not the queue was empty
sendMessage_NoEmptyCheck(s) ==
    messageSender([s EXCEPT !.mWriteQueue = Append(@, s.sent + 1), !.sent = @ + 1])

sendMessage(s) ==
    LET wasEmpty == s.mWriteQueue = <<>>
        t == [s EXCEPT !.mWriteQueue = Append(@, s.sent + 1), !.sent = @ + 1]
    IN  IF wasEmpty THEN messageSender(t) ELSE t

writeHandler(s, error) ==
    IF error
    THEN drop([s EXCEPT !.mErrorWrite = IF isConnected(s) THEN @ + 1 ELSE @,
                        !.outcome = "writeError"])
    ELSE s

\* mWriteQueue.pop()
queuePop(s) ==
    IF s.mWriteQueue = <<>>
    THEN [s EXCEPT !.ub = TRUE]
    ELSE [s EXCEPT !.mWriteQueue = Tail(@)]

\* a completion handler that stops at a failed write: no pop, no next write
writeCompletion_StopOnError(s, error) ==
    IF error
    THEN writeHandler(s, error)
    ELSE messageSender(queuePop(writeHandler(s, error)))

\* the completion handler of messageSender's async_write
writeCompletion(s, error) == messageSender(queuePop(writeHandler(s, error)))

\* startRead without the shouldAbort check
startRead_NoAbortCheck(s) ==
    IF Len(s.mIncomingHeader) # 0
    THEN [s EXCEPT !.assertFailed = TRUE]
    ELSE [s EXCEPT !.mLastRead = s.now,
                   !.mIncomingHeader = <<0, 0, 0, 0>>,
                   !.reads = Append(@, [kind |-> "header", size |-> 4,
                                        st |-> Issued(s)])]

\* startRead that does not set mLastRead
startRead_NoStamp(s) ==
    IF shouldAbort(s)
    THEN s
    ELSE IF Len(s.mIncomingHeader) # 0
    THEN [s EXCEPT !.assertFailed = TRUE]
    ELSE [s EXCEPT !.mIncomingHeader = <<0, 0, 0, 0>>,
                   !.reads = Append(@, [kind |-> "header", size |-> 4,
                                        st |-> Issued(s)])]

\* async_read only starts the read, so the catch of startRead is never entered
startRead(s) ==
    IF shouldAbort(s)
    THEN s
    ELSE IF Len(s.mIncomingHeader) # 0
    THEN [s EXCEPT !.assertFailed = TRUE]
    ELSE [s EXCEPT !.mLastRead = s.now,
                   !.mIncomingHeader = <<0, 0, 0, 0>>,
                   !.reads = Append(@, [kind |-> "header", size |-> 4,
                                        st |-> Issued(s)])]

\* getIncomingMsgLength without the bound check
getIncomingMsgLength_NoDrop(s) ==
    LET h == s.mIncomingHeader
    IN  [s |-> s,
         length |-> (((h[1] % 128) * 256 + h[2]) * 256 + h[3]) * 256 + h[4]]

\* getIncomingMsgLength rejecting a length equal to MAX_MESSAGE_SIZE
getIncomingMsgLength_OffByOne(s) ==
    LET h == s.mIncomingHeader
        length == (((h[1] % 128) * 256 + h[2]) * 256 + h[3]) * 256 + h[4]
    IN  IF length < 0 \/ length >= MAX_MESSAGE_SIZE
        THEN [s |-> drop([s EXCEPT !.mErrorRead = @ + 1, !.outcome = "badLength"]),
              length |-> length]
        ELSE [s |-> s, length |-> length]

\* the state after the call and the value returned
getIncomingMsgLength(s) ==
    LET h == s.mIncomingHeader
        l0 == h[1] % 128
        l1 == l0 * 256 + h[2]
        l2 == l1 * 256 + h[3]
        length == l2 * 256 + h[4]
    IN  IF length < 0 \/ length > MAX_MESSAGE_SIZE
        THEN [s |-> drop([s EXCEPT !.mErrorRead = @ + 1, !.outcome = "badLength"]),
              length |-> length]
        ELSE [s |-> s, length |-> length]

connected(s) == startRead(s)

readHeaderHandler(s, error) ==
    IF ~error
    THEN LET r == getIncomingMsgLength(s)
             t == r.s
         IN  [t EXCEPT !.mIncomingBody = [size |-> r.length, tok |-> @.tok,
                                          filled |-> 0],
                       !.reads = Append(@, [kind |-> "body", size |-> r.length,
                                            st |-> Issued(t)])]
    ELSE drop([s EXCEPT !.mErrorRead = IF isConnected(s) THEN @ + 1 ELSE @,
                        !.outcome = "readError"])

\* corrupt: the body is not the XDR of a message (xdr_runtime_error)
recvMessage(s, corrupt) ==
    IF corrupt
    THEN drop([s EXCEPT !.outcome = "decodeError"])
    ELSE [s EXCEPT !.sink = Append(@, s.mIncomingBody)]

\* readBodyHandler dispatching the body buffer after a failed read too
readBodyHandler_DispatchOnError(s, error, corrupt) ==
    IF ~error
    THEN startRead(recvMessage(s, corrupt))
    ELSE drop(recvMessage([s EXCEPT !.outcome = "readError"], corrupt))

readBodyHandler(s, error, corrupt) ==
    IF ~error
    THEN startRead(recvMessage(s, corrupt))
    ELSE drop([s EXCEPT !.mErrorRead = IF isConnected(s) THEN @ + 1 ELSE @,
                        !.outcome = "readError"])

\* a body completion handler that leaves the header buffer as it is
bodyCompletion_NoClear(s, error, corrupt) == readBodyHandler(s, error, corrupt)

\* the completion handler of readHeaderHandler's async_read
bodyCompletion(s, error, corrupt) ==
    readBodyHandler([s EXCEPT !.mIncomingHeader = <<>>], error, corrupt)

\* Peer::connectHandler
connectHandler(s, error) ==
    IF error
    THEN drop(s)
    ELSE IF s.mState = "CONNECTING"
    THEN connected([s EXCEPT !.mState = "CONNECTED"])
    ELSE s

\* ~TCPPeer: cancel() of a socket that is not open throws, and close() is skipped
\* w: the build defines _WIN32
destructor(s, w) ==
    LET t == timerCancel(s)
        u == IF w \/ s.sockOpen THEN socketClose(t) ELSE t
    IN  [u EXCEPT !.destroyed = TRUE, !.win32 = w, !.reads = <<>>,
                  !.writes = <<>>, !.waits = <<>>, !.connectOp = "none"]

\* ---- the state after accept() or initiate() returns

TCPPeer(b, role) ==
    [left |-> b, win32 |-> FALSE, now |-> 0, mState |-> initialState(role),
     sockOpen |-> TRUE,
     closeCalls |-> 0, dropPeerCalls |-> 0, destroyed |-> FALSE,
     connectOp |-> "none", mWriteQueue |-> <<>>, writes |-> <<>>,
     written |-> <<>>, sent |-> 0, reads |-> <<>>, mIncomingHeader |-> <<>>,
     mIncomingBody |-> [size |-> 0, tok |-> 0, filled |-> 0], rcvd |-> 0,
     wireLen |-> <<>>, sink |-> <<>>, mLastRead |-> 0, mLastWrite |-> 0,
     waits |-> <<>>, mTimeoutRead |-> 0,
     mTimeoutWrite |-> 0, mErrorRead |-> 0, mErrorWrite |-> 0,
     outcome |-> "none", assertFailed |-> FALSE, ub |-> FALSE]

accept(b) == startRead(TCPPeer(b, "REMOTE_CALLED_US"))

initiate(b) == [TCPPeer(b, "WE_CALLED_REMOTE") EXCEPT !.connectOp = "pending"]

InitWith(b) == \E t \in {accept(b), initiate(b)} : Is(t)

Init == InitWith(MaxEvents)

\* ---- actions

Alive == ~destroyed /\ ~assertFailed /\ ~ub

\* a caller sends a message
SendMessage ==
    /\ Alive /\ left > 0
    /\ Becomes(sendMessage([Cur EXCEPT !.left = @ - 1]))

\* the stream finishes a write, with or without an error
WriteFinish ==
    /\ Alive
    /\ \E i \in 1..Len(writes), st \in {"ok", "err"} :
        /\ writes[i].st = "pending"
        /\ Becomes([Cur EXCEPT !.writes[i].st = st])

\* the strand runs the completion handler of a finished write
WriteCallback ==
    /\ Alive
    /\ \E i \in 1..Len(writes) :
        /\ writes[i].st # "pending"
        /\ Becomes(writeCompletion([Cur EXCEPT !.writes = RemoveAt(@, i)],
                                   writes[i].st = "err"))

\* the remote peer's next header arrives
HeaderFrom(H) ==
    /\ Alive /\ left > 0
    /\ \E i \in 1..Len(reads), h \in H :
        /\ reads[i].kind = "header" /\ reads[i].st = "pending"
        /\ Becomes([Cur EXCEPT !.left = @ - 1,
                               !.reads[i].st = "ok",
                               !.mIncomingHeader = EncodeHeader(h[1], h[2]),
                               !.rcvd = @ + 1,
                               !.wireLen = Append(@, h[1])])

HeaderArrives == HeaderFrom(WireHeaders)

\* the body of the frame whose header was read last arrives
BodyArrives ==
    /\ Alive
    /\ \E i \in 1..Len(reads) :
        /\ reads[i].kind = "body" /\ reads[i].st = "pending"
        /\ Becomes([Cur EXCEPT !.reads[i].st = "ok",
                               !.mIncomingBody = [size |-> @.size, tok |-> rcvd,
                                                  filled |-> reads[i].size]])

\* a read fails
ReadFails ==
    /\ Alive
    /\ \E i \in 1..Len(reads) :
        /\ reads[i].st = "pending"
        /\ Becomes([Cur EXCEPT !.reads[i].st = "err"])

ReadHeaderCallback ==
    /\ Alive
    /\ \E i \in 1..Len(reads) :
        /\ reads[i].kind = "header" /\ reads[i].st # "pending"
        /\ Becomes(readHeaderHandler([Cur EXCEPT !.reads = RemoveAt(@, i)],
                                     reads[i].st = "err"))

ReadBodyCallback ==
    /\ Alive
    /\ \E i \in 1..Len(reads), corrupt \in BOOLEAN :
        /\ reads[i].kind = "body" /\ reads[i].st # "pending"
        /\ Becomes(bodyCompletion([Cur EXCEPT !.reads = RemoveAt(@, i)],
                                  reads[i].st = "err", corrupt))

\* the owner of the peer arms the watchdog
StartIdleTimer ==
    /\ Alive /\ left > 0
    /\ Becomes(startIdleTimer([Cur EXCEPT !.left = @ - 1]))

\* the timer reaches its expiry time
TimerFires ==
    /\ Alive
    /\ \E i \in 1..Len(waits) :
        /\ waits[i].st = "pending" /\ now >= waits[i].at
        /\ Becomes([Cur EXCEPT !.waits[i].st = "ok"])

TimerCallback ==
    /\ Alive
    /\ \E i \in 1..Len(waits) :
        /\ waits[i].st # "pending"
        /\ Becomes(idleTimerExpired([Cur EXCEPT !.waits = RemoveAt(@, i)],
                                    waits[i].st = "err"))

\* an external drop request
ExternalDrop ==
    /\ Alive
    /\ Becomes(drop(Cur))

ConnectFinish ==
    /\ Alive /\ connectOp = "pending"
    /\ \E st \in {"ok", "err"} : Becomes([Cur EXCEPT !.connectOp = st])

ConnectCallback ==
    /\ Alive /\ connectOp \in {"ok", "err"}
    /\ Becomes(connectHandler([Cur EXCEPT !.connectOp = "none"], connectOp = "err"))

\* the clock advances
Advance ==
    /\ Alive /\ left > 0
    /\ Becomes([Cur EXCEPT !.left = @ - 1, !.now = @ + TimeStep])

\* what is left of a destroyed peer: its members are gone, the socket's and the
\* registry's record of the calls made stays
Released(s) ==
    [TCPPeer(s.left, "") EXCEPT !.win32 = s.win32, !.now = s.now,
                                !.mState = s.mState,
                                !.sockOpen = s.sockOpen,
                                !.closeCalls = s.closeCalls,
                                !.dropPeerCalls = s.dropPeerCalls,
                                !.destroyed = TRUE]

\* the last reference to the peer goes away: handlers not yet run are discarded
Destroy ==
    /\ Alive
    /\ \E w \in BOOLEAN : Becomes(Released(destructor(Cur, w)))

Next ==
    \/ SendMessage
    \/ WriteFinish
    \/ WriteCallback
    \/ HeaderArrives
    \/ BodyArrives
    \/ ReadFails
    \/ ReadHeaderCallback
    \/ ReadBodyCallback
    \/ StartIdleTimer
    \/ TimerFires
    \/ TimerCallback
    \/ ExternalDrop
    \/ ConnectFinish
    \/ ConnectCallback
    \/ Advance
    \/ Destroy

Spec == Init /\ [][Next]_vars

\* ---- the header decoder alone: one accepted peer reads one header

\* body lengths around every byte boundary and around the bound
CodecLengths ==
    (0..12) \cup {127, 128, 255, 256, 257, 65535, 65536, 65537,
                  MAX_MESSAGE_SIZE - 1, MAX_MESSAGE_SIZE, MAX_MESSAGE_SIZE + 1,
                  16777471, 33554432, 2147483646, 2147483647}

CodecHeaders == CodecLengths \X TopBits

InitCodec == Is(accept(MaxEvents))

NextCodec ==
    \/ HeaderFrom(CodecHeaders)
    \/ ReadHeaderCallback

SpecCodec == InitCodec /\ [][NextCodec]_vars

\* ---- claims

\* C1: in every reachable state at most one async_write is outstanding (issued,
\* its completion handler not yet run), whatever the order of sendMessage calls
\* and write completions.
C1_OneWriteOutstanding == Len(writes) <= 1

\* frame 2 was enqueued while the write of frame 1 is still outstanding
C1_Witness ==
    /\ Len(mWriteQueue) = 2
    /\ written = <<1>>
    /\ Len(writes) = 1 /\ writes[1].st = "pending"

\* C2: the frames handed to async_write are, in order, a prefix of the frames
\* enqueued (frame k is the k-th sendMessage call): none skipped, repeated or
\* reordered.
C2_WrittenInEnqueueOrder ==
    /\ Len(written) <= sent
    /\ \A k \in 1..Len(written) : written[k] = k

\* three frames were enqueued in a burst and written one after the other
C2_Witness ==
    /\ written = <<1, 2, 3>>
    /\ mLastWrite = 0

\* C3: however often drop() is called, dropPeer is called at most once and
\* exactly once when the peer is CLOSING, drop() has closed the socket as often
\* as it has called dropPeer, and a drop() of a CLOSING peer changes nothing.
C3_DropIdempotent ==
    /\ dropPeerCalls <= 1
    /\ (mState = "CLOSING") <=> (dropPeerCalls = 1)
    /\ ~destroyed => closeCalls = dropPeerCalls
    /\ (mState = "CLOSING" /\ ~destroyed) =>
           drop(Cur) = Cur

\* a read timeout dropped the peer, and a write error has called drop() again
C3_Witness ==
    /\ mTimeoutRead = 1
    /\ outcome = "writeError"
    /\ dropPeerCalls = 1 /\ closeCalls = 1

\* C4 (as claimed): when a header's length is out of bounds no body buffer of
\* that size is allocated and no body read is issued for it.
C4_NoBodyReadForBadLength ==
    /\ mIncomingBody.size <= MAX_MESSAGE_SIZE
    /\ \A i \in 1..Len(reads) :
           reads[i].kind = "body" => reads[i].size <= MAX_MESSAGE_SIZE

\* C5: every body handed to the sink was read completely (as many bytes as the
\* buffer holds), and its length is the length its header declared and is in
\* bounds.
C5_SinkGetsWholeBodies ==
    \A k \in 1..Len(sink) :
        /\ sink[k].filled = sink[k].size
        /\ sink[k].size <= MAX_MESSAGE_SIZE
        /\ sink[k].tok \in 1..Len(wireLen)
        /\ sink[k].size = wireLen[sink[k].tok]

\* one frame was delivered; the next header was out of bounds, its body read
\* failed and nothing more was delivered
C5_Witness ==
    /\ Len(sink) = 1
    /\ rcvd = 2 /\ wireLen[2] > MAX_MESSAGE_SIZE
    /\ mIncomingBody.size > MAX_MESSAGE_SIZE
    /\ reads = <<>> /\ outcome = "readError"

TimeoutOutcomes == {"readTimeout", "writeTimeout"}

\* C6: at a tick (idleTimerExpired without error), reads stalled and writes not:
\* the read-timeout meter is marked, the write-timeout meter is not and the peer
\* is CLOSING; writes stalled and reads not: the other way round; a tick that
\* drops marks exactly one of the two meters, a tick that re-arms none.
C6_WatchdogDirection ==
    [][ (outcome' \in TimeoutOutcomes \cup {"rearm"}) =>
          LET readStalled == now - mLastRead > IO_TIMEOUT_SECONDS
              writeStalled == now - mLastWrite > IO_TIMEOUT_SECONDS
              readMarks == mTimeoutRead' - mTimeoutRead
              writeMarks == mTimeoutWrite' - mTimeoutWrite
          IN  /\ (readStalled /\ ~writeStalled) =>
                    (readMarks = 1 /\ writeMarks = 0 /\ mState' = "CLOSING")
              /\ (writeStalled /\ ~readStalled) =>
                    (writeMarks = 1 /\ readMarks = 0 /\ mState' = "CLOSING")
              /\ (outcome' \in TimeoutOutcomes) =>
                    (readMarks + writeMarks = 1 /\ {readMarks, writeMarks} = {0, 1}
                     /\ mState' = "CLOSING")
              /\ (outcome' = "rearm") =>
                    (readMarks = 0 /\ writeMarks = 0 /\ ~readStalled /\ ~writeStalled)
      ]_vars

\* a tick found the reads stalled while a write was started within the interval
C6_Witness ==
    /\ outcome = "readTimeout"
    /\ now - mLastRead > IO_TIMEOUT_SECONDS
    /\ now - mLastWrite <= IO_TIMEOUT_SECONDS
    /\ mTimeoutRead = 1 /\ mTimeoutWrite = 0

\* C7 (as claimed): the socket is closed exactly once in the life of a peer:
\* not before the peer is CLOSING or destroyed, once from then on.
C7_ClosedExactlyOnce ==
    IF destroyed \/ mState = "CLOSING" THEN closeCalls = 1 ELSE closeCalls = 0

FatalOutcomes ==
    {"readError", "writeError", "badLength", "decodeError"} \cup TimeoutOutcomes

\* the step runs the completion handler of async_connect (Peer::connectHandler)
ConnectStep == connectOp \in {"ok", "err"} /\ connectOp' = "none"

\* C8: a CLOSING peer stays CLOSING in every step of a read completion, write
\* completion, timer tick, sendMessage, drop() or destruction, and a handler that
\* met a fatal condition leaves the peer CLOSING.
C8_ClosingTerminal ==
    [][ /\ (mState = "CLOSING" /\ ~ConnectStep) => (mState' = "CLOSING")
        /\ (outcome' \in FatalOutcomes) => (mState' = "CLOSING")
      ]_vars

\* a read completion ran its error path on a peer that was CLOSING already
C8_Witness ==
    /\ mState = "CLOSING" /\ ~destroyed
    /\ outcome = "readError"
    /\ mErrorRead = 0

\* the header handler has decoded the header received last
HeaderDecoded ==
    /\ rcvd >= 1
    /\ Len(reads) = 1 /\ reads[1].kind = "body"

\* C9: a header encoding the length L, with its top bit set or not, decodes to
\* L; it is accepted when L <= MAX_MESSAGE_SIZE and rejected (the peer dropped)
\* when L is larger.
C9_HeaderRoundTrip ==
    HeaderDecoded =>
        LET L == wireLen[rcvd]
        IN  /\ reads[1].size = L
            /\ (L <= MAX_MESSAGE_SIZE) => (mState = "CONNECTED" /\ outcome = "none")
            /\ (L > MAX_MESSAGE_SIZE) => (mState = "CLOSING" /\ outcome = "badLength")

\* the largest length allowed, sent with the top bit set, was accepted
C9_Witness ==
    /\ HeaderDecoded
    /\ wireLen[rcvd] = MAX_MESSAGE_SIZE
    /\ mIncomingHeader = <<129, 0, 0, 0>>
    /\ reads[1].size = MAX_MESSAGE_SIZE /\ mState = "CONNECTED"

\* C10: the bodies handed to the sink are, in order, the bodies of the first
\* frames of the stream (body k belongs to the k-th header received).
C10_SinkInStreamOrder ==
    /\ Len(sink) <= rcvd
    /\ \A k \in 1..Len(sink) : sink[k].tok = k

\* two frames were delivered while a write was outstanding
C10_Witness ==
    /\ Len(sink) = 2
    /\ Len(writes) = 1

\* C11 (as claimed): when accept returns, the peer is CONNECTED, one idle-timer
\* wait is pending and one header read is outstanding.
C11_AcceptArmsAndReads ==
    Is(accept(MaxEvents)) =>
        /\ mState = "CONNECTED"
        /\ Len(waits) = 1 /\ waits[1].st = "pending"
        /\ Len(reads) = 1 /\ reads[1].kind = "header" /\ reads[1].st = "pending"

\* C12: the frame of an outstanding write is the front of mWriteQueue, and a
\* step that shortens the queue of a living peer removes exactly the front
\* frame, whose write has finished.
C12_PopAfterOwnCompletion ==
    [][ /\ \A i \in 1..Len(writes') :
              mWriteQueue' # <<>> /\ writes'[i].frame = Head(mWriteQueue')
        /\ (Len(mWriteQueue') < Len(mWriteQueue) /\ ~destroyed') =>
              /\ mWriteQueue' = Tail(mWriteQueue)
              /\ \E i \in 1..Len(writes) :
                    writes[i].st # "pending" /\ writes[i].frame = Head(mWriteQueue)
      ]_vars

\* frame 1 left the queue after its write, and the write of frame 2, now the
\* front, is outstanding while frame 3 waits
C12_Witness ==
    /\ mWriteQueue = <<2, 3>>
    /\ written = <<1, 2>>
    /\ Len(writes) = 1 /\ writes[1].frame = 2

\* C13 (as claimed): the handler of a failed write issues no write.
C13_NoWriteAfterFailedWrite ==
    [][ (outcome' = "writeError") => (written' = written) ]_vars

\* C14: the assert of startRead never fails and at most one read is outstanding.
C14_NoOverlappingReads ==
    /\ ~assertFailed
    /\ Len(reads) <= 1
    /\ (reads # <<>> /\ reads[1].kind = "header") => Len(mIncomingHeader) = 4

\* the second header read is outstanding after the first frame went to the sink
C14_Witness ==
    /\ connectOp = "none" /\ dropPeerCalls = 0 /\ closeCalls = 0
    /\ Len(sink) = 1 /\ sink[1].size = 5
    /\ Len(reads) = 1 /\ reads[1].kind = "header" /\ reads[1].st = "pending"
    /\ mIncomingHeader = <<0, 0, 0, 0>>

\* a step that runs the completion handler of a successful read or write
HeaderOkStep ==
    /\ ~destroyed' /\ reads' # reads
    /\ \E i \in 1..Len(reads) : reads[i].kind = "header" /\ reads[i].st = "ok"

BodyOkStep ==
    /\ ~destroyed' /\ reads' # reads
    /\ \E i \in 1..Len(reads) : reads[i].kind = "body" /\ reads[i].st = "ok"

WriteOkStep ==
    /\ ~destroyed' /\ writes' # writes
    /\ \E i \in 1..Len(writes) : writes[i].st = "ok"

\* C15: the handler of a successful body read leaves exactly one new pending
\* header read, stamped with the current time, when the peer is not CLOSING
\* after the dispatch, and no read at all when it is CLOSING (dropped during
\* the dispatch or before the handler ran).
C15_NextReadUnlessClosing ==
    [][ BodyOkStep =>
          IF mState' # "CLOSING"
          THEN /\ reads' = <<[kind |-> "header", size |-> 4, st |-> "pending"]>>
               /\ sink' = Append(sink, mIncomingBody)
               /\ mLastRead' = now
          ELSE reads' = <<>>
      ]_vars

\* the payload of the first frame did not decode: the peer is CLOSING and no
\* read was issued
C15_Witness ==
    /\ outcome = "decodeError" /\ mState = "CLOSING"
    /\ rcvd = 1 /\ sink = <<>> /\ reads = <<>>

\* C16 (as claimed): once the peer is CLOSING, no step other than a
\* sendMessage call delivers to the sink, issues a write or issues a read.
C16_CompletionsNoOpOnceClosing ==
    [][ (mState = "CLOSING" /\ sent' = sent /\ ~destroyed') =>
          /\ sink' = sink
          /\ written' = written
          /\ (reads' = reads \/ reads' = <<>>)
      ]_vars

\* C17 (as claimed): a tick does not drop a CONNECTED peer that has never sent anything
\* and whose last read is within the timeout, nor one that has never received
\* anything and whose last write is within the timeout.
C17_OneDirectionKeptAlive ==
    [][ (outcome' \in TimeoutOutcomes /\ mState = "CONNECTED") =>
          /\ ~(sent = 0 /\ rcvd >= 1 /\ now - mLastRead <= IO_TIMEOUT_SECONDS)
          /\ ~(rcvd = 0 /\ sent >= 1 /\ now - mLastWrite <= IO_TIMEOUT_SECONDS)
      ]_vars

\* a step in which startRead issues a header read, messageSender a write
ReadStarted ==
    /\ ~destroyed'
    /\ \E i \in 1..Len(reads') : reads'[i].kind = "header"
    /\ \A j \in 1..Len(reads) : reads[j].kind # "header"

WriteStarted ==
    /\ ~destroyed'
    /\ Len(written') = Len(written) + 1

\* C18 (as claimed): the handler of a successful header read or body read
\* sets mLastRead to the current time, the handler of a successful write sets
\* mLastWrite to it, and no other step of a living peer changes either.
C18_StampedAtCompletion ==
    [][ ~destroyed' =>
          /\ (HeaderOkStep \/ BodyOkStep) => (mLastRead' = now)
          /\ ~(HeaderOkStep \/ BodyOkStep) => (mLastRead' = mLastRead)
          /\ WriteOkStep => (mLastWrite' = now)
          /\ ~WriteOkStep => (mLastWrite' = mLastWrite)
      ]_vars

\* C18 (amended): mLastRead is set to the current time exactly in the steps
\* in which startRead issues a header read, and mLastWrite exactly in the
\* steps in which messageSender issues a write; no other step of a living peer
\* changes either.
C18_StampedWhenIssued ==
    [][ ~destroyed' =>
          /\ ReadStarted => (mLastRead' = now)
          /\ ~ReadStarted => (mLastRead' = mLastRead)
          /\ WriteStarted => (mLastWrite' = now)
          /\ ~WriteStarted => (mLastWrite' = mLastWrite)
      ]_vars

\* after the clock moved, a frame went to the sink and the next header read
\* was issued, and a frame was enqueued on the empty queue and its write issued
C18_Witness ==
    /\ now > 0 /\ mLastRead = now /\ mLastWrite = now
    /\ Len(sink) = 1 /\ Len(reads) = 1 /\ reads[1].kind = "header"
    /\ written = <<1>> /\ Len(writes) = 1

\* C19: a write is outstanding exactly when mWriteQueue is not empty, there is
\* never more than one, and pop is never executed on an empty queue.
C19_WriteIffQueued ==
    /\ ~ub
    /\ Len(writes) <= 1
    /\ (writes # <<>>) <=> (mWriteQueue # <<>>)

\* the write of frame 1 failed and the peer was dropped with two more frames
\* queued: the write of frame 2 is in progress and frame 3 is still queued
C19_Witness ==
    /\ outcome = "writeError" /\ mState = "CLOSING"
    /\ sent = 3 /\ mWriteQueue = <<2, 3>>
    /\ Len(writes) = 1 /\ writes[1].frame = 2


\* the write side of the peer, with drop() called from outside standing for
\* all callers of drop()
NextWrites ==
    \/ SendMessage
    \/ WriteFinish
    \/ WriteCallback
    \/ ExternalDrop
    \/ ConnectFinish
    \/ ConnectCallback
    \/ Destroy

\* the write side run by an io_service that keeps running: every issued write
\* finishes, and every handler queued by a finished write is run
SpecLive ==
    Init /\ [][NextWrites]_vars /\ WF_vars(WriteFinish) /\ WF_vars(WriteCallback)

Frames == 1..MaxEvents

InQueue(f) == \E i \in 1..Len(mWriteQueue) : mWriteQueue[i] = f

\* C20: when every issued write finishes and its handler runs, every enqueued
\* frame eventually leaves mWriteQueue, and the queue ends up empty for good
\* with no write outstanding.
C20_QueueDrains ==
    /\ \A f \in Frames : InQueue(f) ~> ~InQueue(f)
    /\ <>[](mWriteQueue = <<>> /\ writes = <<>>)

\* the peer was dropped while frames 2 and 3 were queued behind a pending
\* write, and the failing writes have emptied the queue
C20_Witness ==
    /\ ~destroyed /\ mState = "CLOSING" /\ closeCalls = 1
    /\ sent = 3 /\ written = <<1, 2, 3>>
    /\ mWriteQueue = <<>> /\ writes = <<>>
    /\ mErrorWrite = 0 /\ outcome = "writeError"

====
